---- MODULE Spec2Model ----
(***************************************************************************)
(* Event correlation of the nfapi-debugger scripts.                        *)
(*                                                                         *)
(*   script.py        Start/Stop mode:  parse_log_file -> create_pairs     *)
(*   t1-t4/script.py  checkpoint chain: organize_by_frame_slot ->          *)
(*                    calculate_time_differences -> plot_time_differences  *)
(*   vnf_pnf_log_parser.py  line classifier: parse -> parse_line           *)
(*   t1-t4/slot_analyzer.py  T1 intervals: extract_t1_slots ->             *)
(*                    calculate_intervals -> print_statistics ->           *)
(*                    plot_intervals                                       *)
(*   PRB/log_parser.py  UE sizes: parse_log_file                           *)
(*   t1-t5/merge.py   merge of two logs: merge_and_sort_files              *)
(*                                                                         *)
(* Timestamps are whole microseconds: the log prints seconds with six      *)
(* decimals, and (b - a) * 1e6 of the source is the difference b - a of    *)
(* the microsecond counts.  Floating-point rounding is modelled only in    *)
(* the statistics of plot_individual_pairs, where the order of the float   *)
(* additions is what is in question.                                       *)
(***************************************************************************)
EXTENDS Integers, Sequences, FiniteSets, TLC

VARIABLES program, pc, entries, start_map, pairs, data, results, filtered,
          line, ret, parser_data, lines_read,
          t1_slots, slot_labels, intervals_ms, stats, avg_interval,
          log_files, all_in, all_out, ue_data, exit_code,
          durations, avg_duration, max_duration, min_duration,
          file1, file2, lines, output_file

\* the state of VNFPNFLogParser: the line in hand, what parse_line made of it,
\* self.data, and how many lines of the file have been taken
parseVars == <<line, ret, parser_data, lines_read>>

\* the state of t1-t4/slot_analyzer.py: the locals of main, what
\* print_statistics printed, and the average plot_intervals draws
slotVars == <<t1_slots, slot_labels, intervals_ms, stats, avg_interval>>

\* main of script.py and of t1-t4/script.py: sys.argv[1:], the entries of
\* the log files already processed, and all_pairs_dict or all_results
mainVars == <<log_files, all_in, all_out>>

\* PRB/log_parser.py: ue_data of parse_log_file, and the status of sys.exit
prbVars == <<ue_data, exit_code>>

\* plot_individual_pairs of script.py on the list of one suffix: the
\* durations in list order and the statistics of the text box
statVars == <<durations, avg_duration, max_duration, min_duration>>

\* t1-t5/merge.py: the lines read from the two files so far, the list
\* `lines` of merge_and_sort_files, and the lines written to the output
mergeVars == <<file1, file2, lines, output_file>>

\* what one run of create_pairs or of the checkpoint chain never touches
extraVars ==
    <<parseVars, slotVars, mainVars, prbVars, statVars, mergeVars>>

vars == <<program, pc, entries, start_map, pairs, data, results, filtered,
          extraVars>>

(***************************************************************************)
(* Bounds of the model and the input alphabets.                            *)
(***************************************************************************)
MaxEntries == 3
MaxChain == 5

Frames == {3}
Slots == {7, 8}
Keys == Frames \X Slots

\* log timestamps of the Start/Stop log, in microseconds (1.000000 s, ...)
TimeStamps == {1000000, 1000001, 1000042, 1000100, 1000150}

\* event tokens matched by (start|stop-\w+): the text is kept as the list
\* of its "stop-" prefix and its word, so that prefix tests and replace()
\* act on it
Events == {<<"start">>, <<"stop-", "foo">>, <<"stop-", "bar">>}

EntrySet ==
    [timestamp : TimeStamps, frame : Frames, slot : Slots, event : Events]

(***************************************************************************)
(* script.py: create_pairs                                                 *)
(***************************************************************************)
KeyOf_frame(entry) == <<entry.frame, 0>>

\* key = (entry['frame'], entry['slot'])
KeyOf(entry) == <<entry.frame, entry.slot>>

\* entry['event'].startswith('stop-')
StartsWithStop(event) == Len(event) > 0 /\ event[1] = "stop-"

\* entry['event'].replace('stop-', ''): every occurrence is removed
Suffix(event) == SelectSeq(event, LAMBDA tok : tok # "stop-")

\* the ceiling of `if duration_us <= 100`
PairCeiling == 100

duration_us_reversed(stop, start) == start - stop

\* (entry['timestamp'] - start_map[key]) * 1e6
duration_us(stop, start) == stop - start

WithinCeiling_strict(d) == d < PairCeiling

\* duration_us <= 100
WithinCeiling(d) == d <= PairCeiling

\* the dict literal built for a pairing
MakePair(entry, start, d, suffix) ==
    [frame |-> entry.frame, slot |-> entry.slot,
     start_timestamp |-> start, stop_timestamp |-> entry.timestamp,
     duration_us |-> d, suffix |-> suffix]

\* a list that grows at its head
AppendPair_front(ps, suffix, pair) ==
    [s \in DOMAIN ps \cup {suffix} |->
        IF s = suffix
        THEN <<pair>> \o (IF s \in DOMAIN ps THEN ps[s] ELSE <<>>)
        ELSE ps[s]]

\* pairs[suffix].append(pair) on a defaultdict(list)
AppendPair(ps, suffix, pair) ==
    [s \in DOMAIN ps \cup {suffix} |->
        IF s = suffix
        THEN Append(IF s \in DOMAIN ps THEN ps[s] ELSE <<>>, pair)
        ELSE ps[s]]

StartStep_setdefault(sm, entry) ==
    [k \in DOMAIN sm \cup {KeyOf(entry)} |->
        IF k \in DOMAIN sm THEN sm[k] ELSE entry.timestamp]

\* a start written to every key of the frame
StartStep_frame(sm, entry) ==
    [k \in DOMAIN sm \cup {k2 \in Keys : k2[1] = entry.frame} |->
        IF k[1] = entry.frame THEN entry.timestamp ELSE sm[k]]

\* start_map[key] = entry['timestamp']
StartStep(sm, entry) ==
    [k \in DOMAIN sm \cup {KeyOf(entry)} |->
        IF k = KeyOf(entry) THEN entry.timestamp ELSE sm[k]]

StopStep_default(sm, ps, entry) ==
    LET key == KeyOf(entry)
        suffix == Suffix(entry.event)
        start == IF key \in DOMAIN sm THEN sm[key] ELSE entry.timestamp
        d == duration_us(entry.timestamp, start)
    IN  IF WithinCeiling(d)
        THEN AppendPair(ps, suffix, MakePair(entry, start, d, suffix))
        ELSE ps

\* the stop branch: the new value of pairs
StopStep(sm, ps, entry) ==
    LET key == KeyOf(entry)
        suffix == Suffix(entry.event)
    IN  IF key \in DOMAIN sm
        THEN LET d == duration_us(entry.timestamp, sm[key])
             IN  IF WithinCeiling(d)
                 THEN AppendPair(ps, suffix,
                                 MakePair(entry, sm[key], d, suffix))
                 ELSE ps
        ELSE ps

ProcessEntry_consume(sm, ps, entry) ==
    IF entry.event = <<"start">>
    THEN [start_map |-> StartStep(sm, entry), pairs |-> ps]
    ELSE IF StartsWithStop(entry.event)
    THEN [start_map |->
              IF StopStep(sm, ps, entry) # ps
              THEN [k \in DOMAIN sm \ {KeyOf(entry)} |-> sm[k]]
              ELSE sm,
          pairs |-> StopStep(sm, ps, entry)]
    ELSE [start_map |-> sm, pairs |-> ps]

\* one iteration of `for entry in entries`
ProcessEntry(sm, ps, entry) ==
    IF entry.event = <<"start">>
    THEN [start_map |-> StartStep(sm, entry), pairs |-> ps]
    ELSE IF StartsWithStop(entry.event)
    THEN [start_map |-> sm, pairs |-> StopStep(sm, ps, entry)]
    ELSE [start_map |-> sm, pairs |-> ps]

EmptyMap == [x \in {} |-> 0]

(***************************************************************************)
(* t1-t4/script.py: organize_by_frame_slot, calculate_time_differences,    *)
(* plot_time_differences                                                   *)
(***************************************************************************)
ChainSlots == {7}

\* log timestamps of the checkpoint log, in microseconds; [0.000000] is a
\* line the pattern \[(\d+\.\d+)\] accepts
ChainTimeStamps == {0, 100, 250}

\* checkpoint kinds fed to the model, among those t\d+(?:-\w+)? accepts
ChainKinds == {"t1", "t2", "t3", "t5", "t4-ultti", "t4-dltti"}

ChainEntrySet ==
    [timestamp : ChainTimeStamps, frame : Frames, slot : ChainSlots,
     event : ChainKinds]

Categories == {"ultti", "uldci", "dltti", "txdata"}

IntervalNames == {"t1-t2", "t2-t3", "t3-t4", "t4-t5", "t1-t5"}

\* the key under which a category's terminal checkpoint is recorded
T4Kind(c) ==
    CASE c = "ultti" -> "t4-ultti"
      [] c = "uldci" -> "t4-uldci"
      [] c = "dltti" -> "t4-dltti"
      [] c = "txdata" -> "t4-txdata"

\* Python's None, the default of events.get(kind, [None])[0]; a timestamp
\* is never negative
None == -1

\* position of key in the insertion-ordered dict, 0 when absent
IndexOfKey(d, key) ==
    IF \E i \in 1..Len(d) : d[i].key = key
    THEN CHOOSE i \in 1..Len(d) : d[i].key = key
    ELSE 0

\* data[key][entry['event']].append(entry['timestamp'])
OrganizeStep(d, entry) ==
    LET key == KeyOf(entry)
        i == IndexOfKey(d, key)
        old == IF i = 0 THEN [x \in {} |-> <<>>] ELSE d[i].events
        new == [k \in DOMAIN old \cup {entry.event} |->
                   IF k = entry.event
                   THEN Append(IF k \in DOMAIN old THEN old[k] ELSE <<>>,
                               entry.timestamp)
                   ELSE old[k]]
    IN  IF i = 0
        THEN Append(d, [key |-> key, events |-> new])
        ELSE [d EXCEPT ![i].events = new]

\* events.get(kind, [None])[0]
Get(events, kind) ==
    IF kind \in DOMAIN events THEN events[kind][1] ELSE None

\* the truth value Python gives `if t1`: None and 0.0 are false
Truthy(x) == x # None /\ x # 0

Interval(frame, slot, d) ==
    [frame |-> frame, slot |-> slot, duration_us |-> d]

\* a category block that is not guarded by its terminal checkpoint
CalcCategory_ungated(res, frame, slot, t1, t2, t3, t4, t5) ==
    [n \in IntervalNames |->
        CASE n = "t1-t2" ->
               IF Truthy(t1) /\ Truthy(t2)
               THEN Append(res[n], Interval(frame, slot, t2 - t1))
               ELSE res[n]
          [] n = "t2-t3" ->
               IF Truthy(t2) /\ Truthy(t3)
               THEN Append(res[n], Interval(frame, slot, t3 - t2))
               ELSE res[n]
          [] n = "t3-t4" ->
               IF Truthy(t3) /\ Truthy(t4)
               THEN Append(res[n], Interval(frame, slot, t4 - t3))
               ELSE res[n]
          [] n = "t4-t5" ->
               IF Truthy(t4) /\ Truthy(t5)
               THEN Append(res[n], Interval(frame, slot, t5 - t4))
               ELSE res[n]
          [] n = "t1-t5" ->
               IF Truthy(t1) /\ Truthy(t5)
               THEN Append(res[n], Interval(frame, slot, t5 - t1))
               ELSE res[n]]

\* one `if t4_<category>:` block; res maps interval names to lists
CalcCategory(res, frame, slot, t1, t2, t3, t4, t5) ==
    IF Truthy(t4)
    THEN [n \in IntervalNames |->
            CASE n = "t1-t2" ->
                   IF Truthy(t1) /\ Truthy(t2)
                   THEN Append(res[n], Interval(frame, slot, t2 - t1))
                   ELSE res[n]
              [] n = "t2-t3" ->
                   IF Truthy(t2) /\ Truthy(t3)
                   THEN Append(res[n], Interval(frame, slot, t3 - t2))
                   ELSE res[n]
              [] n = "t3-t4" ->
                   IF Truthy(t3) /\ Truthy(t4)
                   THEN Append(res[n], Interval(frame, slot, t4 - t3))
                   ELSE res[n]
              [] n = "t4-t5" ->
                   IF Truthy(t4) /\ Truthy(t5)
                   THEN Append(res[n], Interval(frame, slot, t5 - t4))
                   ELSE res[n]
              [] n = "t1-t5" ->
                   IF Truthy(t1) /\ Truthy(t5)
                   THEN Append(res[n], Interval(frame, slot, t5 - t1))
                   ELSE res[n]]
    ELSE res

\* the body of `for (frame, slot), events in data.items()`
CalcKey(res, item) ==
    LET events == item.events
        t1 == Get(events, "t1")
        t2 == Get(events, "t2")
        t3 == Get(events, "t3")
        t5 == Get(events, "t5")
    IN  [c \in Categories |->
            CalcCategory(res[c], item.key[1], item.key[2],
                         t1, t2, t3, Get(events, T4Kind(c)), t5)]

\* results = {category: defaultdict(list)}: a missing list reads as empty
EmptyResults == [c \in Categories |-> [n \in IntervalNames |-> <<>>]]

RECURSIVE CalcFrom(_, _, _)
CalcFrom(d, i, res) ==
    IF i > Len(d) THEN res ELSE CalcFrom(d, i + 1, CalcKey(res, d[i]))

calculate_time_differences(d) == CalcFrom(d, 1, EmptyResults)

\* the ceiling of `d['duration_us'] <= 100`
PlotCeiling == 100

WithinPlotCeiling_abs(d) == d <= PlotCeiling /\ (0 - d) <= PlotCeiling

WithinPlotCeiling(d) == d <= PlotCeiling

\* filtered_data = [d for d in data_list if d['duration_us'] <= 100]
FilterData(res) ==
    [c \in Categories |-> [n \in IntervalNames |->
        SelectSeq(res[c][n], LAMBDA d : WithinPlotCeiling(d.duration_us))]]

RECURSIVE SumLen(_, _)
SumLen(f, S) ==
    IF S = {} THEN 0
    ELSE LET k == CHOOSE x \in S : TRUE
         IN  Len(f[k]) + SumLen(f, S \ {k})

RECURSIVE CountEntries(_, _)
CountEntries(d, i) ==
    IF i > Len(d) THEN 0
    ELSE SumLen(d[i].events, DOMAIN d[i].events) + CountEntries(d, i + 1)

(***************************************************************************)
(* The state machine.  One run executes one of the two scripts on one log. *)
(***************************************************************************)
InitCommon ==
    /\ entries = <<>>
    /\ start_map = EmptyMap
    /\ pairs = EmptyMap
    /\ data = <<>>
    /\ results = EmptyResults
    /\ filtered = EmptyResults
    /\ line = [ts |-> "", segs |-> {}]
    /\ ret = [kind |-> "none"]
    /\ parser_data = <<>>
    /\ lines_read = 0
    /\ t1_slots = <<>>
    /\ slot_labels = <<>>
    /\ intervals_ms = <<>>
    /\ stats = [count |-> 0]
    /\ avg_interval = [num |-> 0, den |-> 1]
    /\ log_files = <<>>
    /\ all_in = <<>>
    /\ all_out = <<>>
    /\ ue_data = EmptyMap
    /\ exit_code = None
    /\ durations = <<>>
    /\ avg_duration = None
    /\ max_duration = None
    /\ min_duration = None
    /\ file1 = <<>>
    /\ file2 = <<>>
    /\ lines = <<>>
    /\ output_file = <<>>

InitPairs == program = "script.py" /\ pc = "create_pairs" /\ InitCommon

InitChain == program = "t1-t4/script.py" /\ pc = "organize" /\ InitCommon

Init == InitPairs \/ InitChain

\* create_pairs takes the next entry of the log
CreatePairsStep ==
    /\ program = "script.py"
    /\ pc = "create_pairs"
    /\ Len(entries) < MaxEntries
    /\ \E entry \in EntrySet :
         LET r == ProcessEntry(start_map, pairs, entry)
         IN  /\ entries' = Append(entries, entry)
             /\ start_map' = r.start_map
             /\ pairs' = r.pairs
    /\ UNCHANGED <<program, pc, data, results, filtered, extraVars>>

\* organize_by_frame_slot takes the next entry of the log
Organize ==
    /\ program = "t1-t4/script.py"
    /\ pc = "organize"
    /\ CountEntries(data, 1) < MaxChain
    /\ \E entry \in ChainEntrySet : data' = OrganizeStep(data, entry)
    /\ UNCHANGED <<program, pc, entries, start_map, pairs, results, filtered, extraVars>>

\* the log is exhausted: results = calculate_time_differences(data)
Calculate ==
    /\ program = "t1-t4/script.py"
    /\ pc = "organize"
    /\ results' = calculate_time_differences(data)
    /\ pc' = "calculated"
    /\ UNCHANGED <<program, entries, start_map, pairs, data, filtered, extraVars>>

\* plot_time_differences filters what it draws
Plot ==
    /\ program = "t1-t4/script.py"
    /\ pc = "calculated"
    /\ filtered' = FilterData(results)
    /\ pc' = "plotted"
    /\ UNCHANGED <<program, entries, start_map, pairs, data, results, extraVars>>

NextPairs == CreatePairsStep

NextChain == Organize \/ Calculate \/ Plot

Next == CreatePairsStep \/ Organize \/ Calculate \/ Plot

SpecPairs == InitPairs /\ [][NextPairs]_vars

SpecChain == InitChain /\ [][NextChain]_vars

Spec == Init /\ [][Next]_vars

(***************************************************************************)
(* The log read so far, as the claims about create_pairs see it.           *)
(***************************************************************************)
IsStartAt(i, key) ==
    entries[i].event = <<"start">> /\ <<entries[i].frame, entries[i].slot>> = key

IsStopAt(i, key) ==
    /\ Len(entries[i].event) = 2
    /\ entries[i].event[1] = "stop-"
    /\ <<entries[i].frame, entries[i].slot>> = key

\* positions of the start events of key before position i
StartsBefore(i, key) == {j \in 1..(i - 1) : IsStartAt(j, key)}

\* position of the most recent start of key before position i (0: none)
LastStartBefore(i, key) ==
    IF StartsBefore(i, key) = {} THEN 0
    ELSE CHOOSE j \in StartsBefore(i, key) :
             \A l \in StartsBefore(i, key) : l <= j

\* positions of the stop events that have a start of their key before them
MatchedStops(key) ==
    {i \in 1..Len(entries) : IsStopAt(i, key) /\ StartsBefore(i, key) # {}}

\* what the stop at position i measures against the most recent start
StopDuration(i, key) ==
    entries[i].timestamp - entries[LastStartBefore(i, key)].timestamp

\* the emitted pairs as a set of <<suffix, position in its list>>
PairIds ==
    {id \in (DOMAIN pairs) \X (1..Len(entries)) : id[2] <= Len(pairs[id[1]])}

PairAt(id) == pairs[id[1]][id[2]]

PairIdsOfKey(key) ==
    {id \in PairIds : <<PairAt(id).frame, PairAt(id).slot>> = key}

\* the stop at position i has an interval in the list of its suffix
EmittedFor(i, key) ==
    \E id \in PairIdsOfKey(key) :
        /\ entries[i].event = <<"stop-">> \o id[1]
        /\ PairAt(id).stop_timestamp = entries[i].timestamp
        /\ PairAt(id).start_timestamp =
               entries[LastStartBefore(i, key)].timestamp

\* a step of create_pairs that has read one more entry
ReadsOne == Len(entries') = Len(entries) + 1

(***************************************************************************)
(* C1.  Start/Stop mode: a stop event read when no start of its key has   *)
(* been read before produces no interval (the output and the remembered   *)
(* starts are left as they were); a key that only ever has stop events    *)
(* has no interval.                                                       *)
(***************************************************************************)
C1_UnmatchedStopEmitsNothing ==
    [][ReadsOne =>
          LET e == entries'[Len(entries')]
              key == <<e.frame, e.slot>>
          IN  (e.event[1] = "stop-" /\ StartsBefore(Len(entries) + 1, key) = {})
                  => /\ pairs' = pairs
                     /\ start_map' = start_map
                     /\ PairIdsOfKey(key) = {}]_vars

C1_Witness ==
    \E key \in Keys :
        /\ \E i \in 1..Len(entries) : IsStopAt(i, key)
        /\ StartsBefore(Len(entries) + 1, key) = {}
        /\ PairIdsOfKey(key) = {}
        /\ PairIds # {}

(***************************************************************************)
(* C2.  Start/Stop mode: every emitted interval is stored under the       *)
(* suffix of a stop event of its key, carries that stop's timestamp as    *)
(* stop_timestamp and the timestamp of an earlier start of the key as     *)
(* start_timestamp, and its duration is stop_timestamp - start_timestamp  *)
(* in microseconds; a start at 1.000000 s with stop-bar at 1.000042 s     *)
(* gives an interval of category bar and duration 42.                     *)
(***************************************************************************)
C2_PairFields ==
    /\ \A id \in PairIds :
          LET p == PairAt(id)
              key == <<p.frame, p.slot>>
          IN  /\ p.suffix = id[1]
              /\ p.duration_us = p.stop_timestamp - p.start_timestamp
              /\ \E i \in 1..Len(entries) :
                    /\ IsStopAt(i, key)
                    /\ entries[i].event = <<"stop-">> \o id[1]
                    /\ entries[i].timestamp = p.stop_timestamp
                    /\ \E j \in StartsBefore(i, key) :
                          entries[j].timestamp = p.start_timestamp
    /\ \A key \in Keys : \A i \in MatchedStops(key) :
          ( /\ entries[i].event = <<"stop-", "bar">>
            /\ entries[i].timestamp = 1000042
            /\ entries[LastStartBefore(i, key)].timestamp = 1000000 )
          => \E id \in PairIdsOfKey(key) :
                /\ id[1] = <<"bar">>
                /\ PairAt(id).suffix = <<"bar">>
                /\ PairAt(id).duration_us = 42

C2_Witness ==
    \E id \in PairIds :
        /\ id[1] = <<"bar">>
        /\ PairAt(id).start_timestamp = 1000000
        /\ PairAt(id).stop_timestamp = 1000042
        /\ PairAt(id).duration_us = 42

(***************************************************************************)
(* C3.  Start/Stop mode: the interval emitted for a stop uses the         *)
(* timestamp of the most recent start of its key read before it, never    *)
(* an earlier one.                                                        *)
(***************************************************************************)
C3_MostRecentStart ==
    [][ReadsOne =>
          LET e == entries'[Len(entries')]
              key == <<e.frame, e.slot>>
              last == LastStartBefore(Len(entries) + 1, key)
          IN  (e.event[1] = "stop-" /\ pairs' # pairs)
                  => /\ last # 0
                     /\ \E s \in DOMAIN pairs' :
                           /\ e.event = <<"stop-">> \o s
                           /\ Len(pairs'[s]) =
                                 (IF s \in DOMAIN pairs THEN Len(pairs[s]) ELSE 0) + 1
                           /\ pairs'[s][Len(pairs'[s])].start_timestamp =
                                 entries[last].timestamp]_vars

C3_Witness ==
    \E key \in Keys : \E i \in MatchedStops(key) :
        /\ \E j \in StartsBefore(i, key) :
              entries[j].timestamp # entries[LastStartBefore(i, key)].timestamp
        /\ EmittedFor(i, key)

(***************************************************************************)
(* C4.  Start/Stop mode: a pairing does not clear the remembered start.   *)
(* Every stop of a key that follows a start of the key and is within the  *)
(* ceiling of the most recent one has its own interval, so a single start *)
(* followed by n such stops yields n intervals, all with that start's     *)
(* timestamp.                                                             *)
(***************************************************************************)
C4_StartRetained ==
    \A key \in Keys :
        /\ Cardinality(PairIdsOfKey(key)) =
              Cardinality({i \in MatchedStops(key) : StopDuration(i, key) <= 100})
        /\ Cardinality(StartsBefore(Len(entries) + 1, key)) = 1
              => \A id \in PairIdsOfKey(key) :
                    PairAt(id).start_timestamp =
                        entries[LastStartBefore(Len(entries) + 1, key)].timestamp

C4_Witness ==
    \E key \in Keys :
        /\ Cardinality(StartsBefore(Len(entries) + 1, key)) = 1
        /\ Cardinality(PairIdsOfKey(key)) = 2
        /\ Cardinality(DOMAIN pairs) = 2
        /\ \A id \in PairIdsOfKey(key) :
              PairAt(id).start_timestamp =
                  entries[LastStartBefore(Len(entries) + 1, key)].timestamp

(***************************************************************************)
(* The checkpoint log as the claims about calculate_time_differences see   *)
(* it: data[key][kind] is the list of the timestamps of that kind for the  *)
(* key, in input order.                                                    *)
(***************************************************************************)
Calculated == program = "t1-t4/script.py" /\ pc \in {"calculated", "plotted"}

Recorded(item, kind) == kind \in DOMAIN item.events

FirstOf(item, kind) == item.events[kind][1]

LastOf(item, kind) == item.events[kind][Len(item.events[kind])]

\* the two checkpoints a named pair of a category differences
EndPoints(n, c) ==
    CASE n = "t1-t2" -> <<"t1", "t2">>
      [] n = "t2-t3" -> <<"t2", "t3">>
      [] n = "t3-t4" -> <<"t3", T4Kind(c)>>
      [] n = "t4-t5" -> <<T4Kind(c), "t5">>
      [] n = "t1-t5" -> <<"t1", "t5">>

BothRecorded(item, n, c) ==
    Recorded(item, EndPoints(n, c)[1]) /\ Recorded(item, EndPoints(n, c)[2])

\* the intervals a key has under a category and pair name
IntervalsOf(c, n, key) ==
    SelectSeq(results[c][n], LAMBDA d : <<d.frame, d.slot>> = key)

(***************************************************************************)
(* C5.  Checkpoint chain: a key with exactly one timestamp for each of    *)
(* t1, t2, t3, t4-ultti and t5 has exactly five intervals under ultti,    *)
(* t1-t2 = t2 - t1, t2-t3 = t3 - t2, t3-t4 = t4 - t3, t4-t5 = t5 - t4 and *)
(* t1-t5 = t5 - t1, and none under uldci, dltti and txdata.               *)
(***************************************************************************)
C5_CompleteChainFiveIntervals ==
    Calculated =>
        \A i \in 1..Len(data) :
            LET item == data[i] IN
            ( /\ DOMAIN item.events = {"t1", "t2", "t3", "t4-ultti", "t5"}
              /\ \A k \in DOMAIN item.events : Len(item.events[k]) = 1 )
            => \A n \in IntervalNames :
                  /\ IntervalsOf("ultti", n, item.key) =
                        << [frame |-> item.key[1], slot |-> item.key[2],
                            duration_us |->
                                FirstOf(item, EndPoints(n, "ultti")[2])
                                - FirstOf(item, EndPoints(n, "ultti")[1])] >>
                  /\ \A c \in Categories \ {"ultti"} :
                        IntervalsOf(c, n, item.key) = <<>>

(***************************************************************************)
(* C6.  Checkpoint chain: when a kind occurs more than once for a key,    *)
(* every interval involving that kind uses the timestamp of its last      *)
(* occurrence in the input.                                               *)
(***************************************************************************)
C6_LastWriteWins ==
    Calculated =>
        \A i \in 1..Len(data) : \A c \in Categories : \A n \in IntervalNames :
            LET item == data[i]
                ivs == IntervalsOf(c, n, item.key)
            IN  \A j \in 1..Len(ivs) :
                    /\ BothRecorded(item, n, c)
                    /\ ivs[j].duration_us =
                          LastOf(item, EndPoints(n, c)[2])
                          - LastOf(item, EndPoints(n, c)[1])

(***************************************************************************)
(* C7.  Checkpoint chain: for every key and every terminal variant        *)
(* recorded for it, each named pair is emitted if and only if both of its *)
(* endpoint timestamps were recorded for the key, whatever their values   *)
(* (0.0 included).                                                        *)
(***************************************************************************)
C7_PairIffEndpointsRecorded ==
    Calculated =>
        \A i \in 1..Len(data) : \A c \in Categories : \A n \in IntervalNames :
            LET item == data[i] IN
            Recorded(item, T4Kind(c))
                => (Len(IntervalsOf(c, n, item.key)) > 0
                        <=> BothRecorded(item, n, c))

(***************************************************************************)
(* C8.  Checkpoint chain: a key with several recorded terminal variants   *)
(* has its intervals under each of them; the variant-independent pairs    *)
(* t1-t2, t2-t3 and t1-t5 appear once under each recorded variant, with   *)
(* the same value under all of them.                                      *)
(***************************************************************************)
C8_VariantsIndependent ==
    Calculated =>
        \A i \in 1..Len(data) : \A c1, c2 \in Categories :
            LET item == data[i] IN
            (c1 # c2 /\ Recorded(item, T4Kind(c1)) /\ Recorded(item, T4Kind(c2)))
            => \A n \in {"t1-t2", "t2-t3", "t1-t5"} :
                  /\ IntervalsOf(c1, n, item.key) = IntervalsOf(c2, n, item.key)
                  /\ BothRecorded(item, n, c1)
                        => Len(IntervalsOf(c1, n, item.key)) = 1

(***************************************************************************)
(* What plot_time_differences keeps of a list of intervals.                *)
(***************************************************************************)
Plotted == program = "t1-t4/script.py" /\ pc = "plotted"

C10_AbsoluteCeiling ==
    /\ \A key \in Keys : \A i \in MatchedStops(key) :
          StopDuration(i, key) < 0 - 100 => ~EmittedFor(i, key)
    /\ Plotted =>
          \A c \in Categories : \A n \in IntervalNames :
              \A j \in 1..Len(filtered[c][n]) :
                  filtered[c][n][j].duration_us >= 0 - 100

(***************************************************************************)
(* C10 as amended.  The duration rule is applied to the signed duration:  *)
(* only a duration strictly above the ceiling excludes an interval, so an *)
(* interval whose duration is below minus the ceiling (-150 with ceiling  *)
(* 100, a stop earlier than its start) is kept, by create_pairs and by    *)
(* plot_time_differences alike.                                           *)
(***************************************************************************)
C10_SignedCeiling ==
    /\ \A key \in Keys : \A i \in MatchedStops(key) :
          StopDuration(i, key) < 0 - 100 => EmittedFor(i, key)
    /\ Plotted =>
          \A c \in Categories : \A n \in IntervalNames :
              SelectSeq(filtered[c][n], LAMBDA d : d.duration_us < 0 - 100) =
                  SelectSeq(results[c][n], LAMBDA d : d.duration_us < 0 - 100)

C10_Witness ==
    /\ Plotted
    /\ \E c \in Categories : \E n \in IntervalNames :
          \E j \in 1..Len(filtered[c][n]) :
              filtered[c][n][j].duration_us = 0 - 150

(***************************************************************************)
(* vnf_pnf_log_parser.py: the lines of a log.                              *)
(*                                                                         *)
(* A line, after strip_ansi, is what the regular expressions of parse_line *)
(* can see of it: the token [\d.]+ at its start ("" when re.match finds    *)
(* none) and, for each pattern that re.search finds in it, the captured    *)
(* groups.  ints are the groups (-?\d+) or (\d+), tok the group ([\d.]+),  *)
(* status the group (TOO LATE|TOO EARLY).                                  *)
(***************************************************************************)
MaxLines == 2

Sentinel == 2147483647

TsTokens == {"", "0", "12", "1.2.3"}

Seg(pat, ints, tok, status) ==
    [pat |-> pat, ints |-> ints, tok |-> tok, status |-> status]

\* one ordinary segment for each pattern
PlainPool ==
    {Seg("jitter", <<1, 2, 3, 4>>, "", ""),
     Seg("delays", <<5, 6, 7, 8>>, "", ""),
     Seg("tti_warn", <<50>>, "", ""),
     Seg("txdata_warn", <<60>>, "", ""),
     Seg("sync", <<0 - 3>>, "5", ""),
     Seg("pnf_dltti_timing", <<7>>, "5", "TOO LATE"),
     Seg("pnf_dltti_phy", <<8>>, "6", "TOO LATE"),
     Seg("pnf_txdata_timing", <<9>>, "5", "TOO LATE"),
     Seg("pnf_txdata_phy", <<0 - 4>>, "5", "TOO EARLY"),
     Seg("pnf_ultti", <<10>>, "5", "TOO LATE")}

\* segments with values at the sentinel, or with a token float() rejects
EdgePool ==
    {Seg("jitter", <<0 - 2147483647, 0, 0, 0>>, "", ""),
     Seg("delays", <<0, 0, 0, 2147483646>>, "", ""),
     Seg("delays", <<0, 2147483647, 0, 0>>, "", ""),
     Seg("tti_warn", <<2147483646>>, "", ""),
     Seg("tti_warn", <<2147483647>>, "", ""),
     Seg("txdata_warn", <<2147483647>>, "", ""),
     Seg("sync", <<2147483647>>, "5", ""),
     Seg("sync", <<1>>, "1.2.3", ""),
     Seg("pnf_dltti_timing", <<0 - 2147483647>>, "5", "TOO EARLY"),
     Seg("pnf_txdata_phy", <<0 - 4>>, "1.2.3", "TOO EARLY"),
     Seg("pnf_ultti", <<2147483647>>, "5", "TOO LATE")}

SegPool == PlainPool \cup EdgePool

\* re.search finds one match of a pattern: a line holds at most one segment
\* for each pattern.  The lines of the model hold no segment, one segment,
\* two ordinary segments, or a Jitter(...) and a Delays(...) segment.
SegSets ==
    {{}} \cup {{a} : a \in SegPool}
         \cup {{q[1], q[2]} :
                 q \in {r \in PlainPool \X PlainPool : r[1].pat # r[2].pat}}
         \cup {{q[1], q[2]} :
                 q \in {r \in SegPool \X SegPool :
                          r[1].pat = "jitter" /\ r[2].pat = "delays"}}

LineSet == [ts : TsTokens, segs : SegSets]

\* float(text): the value, or ValueError for a token such as "1.2.3"
FloatTable == [tok \in {"0", "5", "6", "12"} |->
                 CASE tok = "0" -> 0 [] tok = "5" -> 5
                   [] tok = "6" -> 6 [] tok = "12" -> 12]

Float(tok) ==
    IF tok \in DOMAIN FloatTable
    THEN [ok |-> TRUE, val |-> FloatTable[tok]]
    ELSE [ok |-> FALSE, val |-> None]

\* re.search(pattern, line): a match object, or None
Has(l, pat) == \E s \in l.segs : s.pat = pat

Match(l, pat) == CHOOSE s \in l.segs : s.pat = pat

(***************************************************************************)
(* vnf_pnf_log_parser.py: parse_line.  It returns a record, returns None,  *)
(* or leaves by the ValueError of a float() it could not convert.          *)
(***************************************************************************)
Raise == [kind |-> "raise"]

ReturnNone == [kind |-> "none"]

Return(r) == [kind |-> "record", rec |-> r]

Abs_signed(v) == v

\* abs(v)
Abs(v) == IF v < 0 THEN 0 - v ELSE v

\* max([abs(v) for v in vals])
MaxAbs(vals) ==
    CHOOSE m \in {Abs(vals[i]) : i \in DOMAIN vals} :
        \A i \in DOMAIN vals : Abs(vals[i]) <= m

JitterDelayRecord(timestamp, j, d) ==
    [timestamp |-> timestamp, type |-> "vnf-jitterdelay",
     dl_jitter |-> j.ints[1], ul_jitter |-> j.ints[2],
     uldci_jitter |-> j.ints[3], txdata_jitter |-> j.ints[4],
     dl_delay |-> d.ints[1], ul_delay |-> d.ints[2],
     uldci_delay |-> d.ints[3], txdata_delay |-> d.ints[4],
     abnormal |-> MaxAbs(j.ints \o d.ints) >= Sentinel]

DlTtiWarnRecord(timestamp, m) ==
    [timestamp |-> timestamp, type |-> "vnf-dltti",
     dl_delay |-> m.ints[1], abnormal |-> m.ints[1] >= Sentinel]

TxDataWarnRecord(timestamp, m) ==
    [timestamp |-> timestamp, type |-> "vnf-txdata",
     txdata_delay |-> m.ints[1], abnormal |-> m.ints[1] >= Sentinel]

\* float(sync.group(2)) is evaluated while the record is built
SyncRecord(timestamp, m) ==
    IF ~Float(m.tok).ok THEN Raise
    ELSE Return([timestamp |-> timestamp, type |-> "vnf-sync",
                 sync_adjustment |-> m.ints[1],
                 vnf_slotnum |-> Float(m.tok).val])

PnfRecord_flagged(timestamp, type, m) ==
    IF ~Float(m.tok).ok THEN Raise
    ELSE IF Abs(m.ints[1]) >= Sentinel
    THEN Return([timestamp |-> timestamp, type |-> type,
                 slotnum |-> Float(m.tok).val, timing_status |-> m.status,
                 delta_us |-> m.ints[1], abnormal |-> TRUE])
    ELSE Return([timestamp |-> timestamp, type |-> type,
                 slotnum |-> Float(m.tok).val, timing_status |-> m.status,
                 delta_us |-> m.ints[1]])

\* the five PNF recognizers build the same record, under three types
PnfRecord(timestamp, type, m) ==
    IF ~Float(m.tok).ok THEN Raise
    ELSE Return([timestamp |-> timestamp, type |-> type,
                 slotnum |-> Float(m.tok).val, timing_status |-> m.status,
                 delta_us |-> m.ints[1]])

Classify_reordered(l, timestamp) ==
    IF Has(l, "pnf_ultti")
    THEN PnfRecord(timestamp, "pnf-ultti", Match(l, "pnf_ultti"))
    ELSE IF Has(l, "pnf_txdata_phy")
    THEN PnfRecord(timestamp, "pnf-txdata", Match(l, "pnf_txdata_phy"))
    ELSE IF Has(l, "pnf_txdata_timing")
    THEN PnfRecord(timestamp, "pnf-txdata", Match(l, "pnf_txdata_timing"))
    ELSE IF Has(l, "pnf_dltti_phy")
    THEN PnfRecord(timestamp, "pnf-dltti", Match(l, "pnf_dltti_phy"))
    ELSE IF Has(l, "pnf_dltti_timing")
    THEN PnfRecord(timestamp, "pnf-dltti", Match(l, "pnf_dltti_timing"))
    ELSE IF Has(l, "sync")
    THEN SyncRecord(timestamp, Match(l, "sync"))
    ELSE IF Has(l, "txdata_warn")
    THEN Return(TxDataWarnRecord(timestamp, Match(l, "txdata_warn")))
    ELSE IF Has(l, "tti_warn")
    THEN Return(DlTtiWarnRecord(timestamp, Match(l, "tti_warn")))
    ELSE IF Has(l, "jitter") /\ Has(l, "delays")
    THEN Return(JitterDelayRecord(timestamp, Match(l, "jitter"),
                                  Match(l, "delays")))
    ELSE ReturnNone

\* a first recognizer that fires on the Jitter(...) match alone
Classify_jitter_alone(l, timestamp) ==
    IF Has(l, "jitter")
    THEN Return(JitterDelayRecord(timestamp, Match(l, "jitter"),
                                  IF Has(l, "delays") THEN Match(l, "delays")
                                  ELSE Match(l, "jitter")))
    ELSE IF Has(l, "tti_warn")
    THEN Return(DlTtiWarnRecord(timestamp, Match(l, "tti_warn")))
    ELSE IF Has(l, "txdata_warn")
    THEN Return(TxDataWarnRecord(timestamp, Match(l, "txdata_warn")))
    ELSE IF Has(l, "sync")
    THEN SyncRecord(timestamp, Match(l, "sync"))
    ELSE IF Has(l, "pnf_dltti_timing")
    THEN PnfRecord(timestamp, "pnf-dltti", Match(l, "pnf_dltti_timing"))
    ELSE IF Has(l, "pnf_dltti_phy")
    THEN PnfRecord(timestamp, "pnf-dltti", Match(l, "pnf_dltti_phy"))
    ELSE IF Has(l, "pnf_txdata_timing")
    THEN PnfRecord(timestamp, "pnf-txdata", Match(l, "pnf_txdata_timing"))
    ELSE IF Has(l, "pnf_txdata_phy")
    THEN PnfRecord(timestamp, "pnf-txdata", Match(l, "pnf_txdata_phy"))
    ELSE IF Has(l, "pnf_ultti")
    THEN PnfRecord(timestamp, "pnf-ultti", Match(l, "pnf_ultti"))
    ELSE ReturnNone

\* the recognizers of parse_line, in the order of the source
Classify(l, timestamp) ==
    IF Has(l, "jitter") /\ Has(l, "delays")
    THEN Return(JitterDelayRecord(timestamp, Match(l, "jitter"),
                                  Match(l, "delays")))
    ELSE IF Has(l, "tti_warn")
    THEN Return(DlTtiWarnRecord(timestamp, Match(l, "tti_warn")))
    ELSE IF Has(l, "txdata_warn")
    THEN Return(TxDataWarnRecord(timestamp, Match(l, "txdata_warn")))
    ELSE IF Has(l, "sync")
    THEN SyncRecord(timestamp, Match(l, "sync"))
    ELSE IF Has(l, "pnf_dltti_timing")
    THEN PnfRecord(timestamp, "pnf-dltti", Match(l, "pnf_dltti_timing"))
    ELSE IF Has(l, "pnf_dltti_phy")
    THEN PnfRecord(timestamp, "pnf-dltti", Match(l, "pnf_dltti_phy"))
    ELSE IF Has(l, "pnf_txdata_timing")
    THEN PnfRecord(timestamp, "pnf-txdata", Match(l, "pnf_txdata_timing"))
    ELSE IF Has(l, "pnf_txdata_phy")
    THEN PnfRecord(timestamp, "pnf-txdata", Match(l, "pnf_txdata_phy"))
    ELSE IF Has(l, "pnf_ultti")
    THEN PnfRecord(timestamp, "pnf-ultti", Match(l, "pnf_ultti"))
    ELSE ReturnNone

\* the recognizers without the `if not timestamp` gate before them
parse_line_ungated(l) ==
    IF l.ts # "" /\ ~Float(l.ts).ok THEN Raise
    ELSE Classify(l, IF l.ts # "" THEN Float(l.ts).val ELSE None)

\* the timestamp gate, then the recognizers
parse_line(l) ==
    IF l.ts # "" /\ ~Float(l.ts).ok THEN Raise
    ELSE LET timestamp == IF l.ts # "" THEN Float(l.ts).val ELSE None
         IN  IF ~Truthy(timestamp) THEN ReturnNone
             ELSE Classify(l, timestamp)

(***************************************************************************)
(* vnf_pnf_log_parser.py: parse, one line of the file at a time.           *)
(***************************************************************************)
InitParse ==
    program = "vnf_pnf_log_parser.py" /\ pc = "parse" /\ InitCommon

\* for line in f: d = self.parse_line(line); if d: self.data.append(d)
ParseLine ==
    /\ program = "vnf_pnf_log_parser.py"
    /\ pc = "parse"
    /\ lines_read < MaxLines
    /\ \E l \in LineSet :
         /\ line' = l
         /\ ret' = parse_line(l)
         /\ lines_read' = lines_read + 1
         /\ parser_data' = IF ret'.kind = "record"
                           THEN Append(parser_data, ret'.rec)
                           ELSE parser_data
         /\ pc' = IF ret'.kind = "raise" THEN "raised" ELSE "parse"
    /\ UNCHANGED <<program, entries, start_map, pairs, data, results,
                   filtered, mainVars, prbVars, slotVars, statVars,
                   mergeVars>>

\* the file is exhausted: df = pd.DataFrame(self.data)
ParseEnd ==
    /\ program = "vnf_pnf_log_parser.py"
    /\ pc = "parse"
    /\ pc' = "parsed"
    /\ UNCHANGED <<program, entries, start_map, pairs, data, results,
                   filtered, mainVars, prbVars, parseVars, slotVars,
                   statVars, mergeVars>>

NextParse == ParseLine \/ ParseEnd

SpecParse == InitParse /\ [][NextParse]_vars

(***************************************************************************)
(* The records of the parser, as the claims about parse_line see them.     *)
(***************************************************************************)
Parsing == program = "vnf_pnf_log_parser.py"

\* the numeric fields of a record other than its timestamp
PayloadFields ==
    {"dl_jitter", "ul_jitter", "uldci_jitter", "txdata_jitter",
     "dl_delay", "ul_delay", "uldci_delay", "txdata_delay",
     "sync_adjustment", "vnf_slotnum", "slotnum", "delta_us"}

PayloadOf(rec) == {rec[f] : f \in (DOMAIN rec) \cap PayloadFields}

AtSentinel(rec) ==
    \E v \in PayloadOf(rec) : v >= Sentinel \/ v <= 0 - Sentinel

Flagged(rec) == "abnormal" \in DOMAIN rec /\ rec.abnormal

ParsedRecords == {parser_data[i] : i \in DOMAIN parser_data}

VnfDelayTypes == {"vnf-jitterdelay", "vnf-dltti", "vnf-txdata"}

RecognizerOrder ==
    <<"jitterdelay", "tti_warn", "txdata_warn", "sync", "pnf_dltti_timing",
      "pnf_dltti_phy", "pnf_txdata_timing", "pnf_txdata_phy", "pnf_ultti">>

Recognizes(l, r) ==
    IF r = "jitterdelay" THEN Has(l, "jitter") /\ Has(l, "delays")
    ELSE Has(l, r)

Matching(l) == {i \in DOMAIN RecognizerOrder : Recognizes(l, RecognizerOrder[i])}

FirstMatching(l) == CHOOSE i \in Matching(l) : \A j \in Matching(l) : i <= j

BuiltBy(rec, l, r) ==
    CASE r = "jitterdelay" ->
           /\ rec.type = "vnf-jitterdelay"
           /\ <<rec.dl_jitter, rec.ul_jitter, rec.uldci_jitter,
                rec.txdata_jitter>> = Match(l, "jitter").ints
           /\ <<rec.dl_delay, rec.ul_delay, rec.uldci_delay,
                rec.txdata_delay>> = Match(l, "delays").ints
      [] r = "tti_warn" ->
           rec.type = "vnf-dltti" /\ rec.dl_delay = Match(l, r).ints[1]
      [] r = "txdata_warn" ->
           rec.type = "vnf-txdata" /\ rec.txdata_delay = Match(l, r).ints[1]
      [] r = "sync" ->
           rec.type = "vnf-sync" /\ rec.sync_adjustment = Match(l, r).ints[1]
      [] r \in {"pnf_dltti_timing", "pnf_dltti_phy"} ->
           /\ rec.type = "pnf-dltti"
           /\ rec.delta_us = Match(l, r).ints[1]
           /\ rec.timing_status = Match(l, r).status
      [] r \in {"pnf_txdata_timing", "pnf_txdata_phy"} ->
           /\ rec.type = "pnf-txdata"
           /\ rec.delta_us = Match(l, r).ints[1]
           /\ rec.timing_status = Match(l, r).status
      [] r = "pnf_ultti" ->
           /\ rec.type = "pnf-ultti"
           /\ rec.delta_us = Match(l, r).ints[1]
           /\ rec.timing_status = Match(l, r).status

\* parse has taken one more line of the file
TakesLine == lines_read' = lines_read + 1

FirstMatchWins ==
    /\ ret'.kind = "record"
    /\ BuiltBy(ret'.rec, line', RecognizerOrder[FirstMatching(line')])
    /\ parser_data' = Append(parser_data, ret'.rec)

Dropped == ret'.kind = "none" /\ parser_data' = parser_data

\* the line starts with a timestamp token that converts to a non-zero number
GateOpen(l) == l.ts # "" /\ Float(l.ts).ok /\ Float(l.ts).val # 0

C16_FailClosed ==
    Parsing => (ret.kind # "raise" /\ pc # "raised")

\* the fields each type of record is to have
FieldsOf(type) ==
    CASE type = "vnf-jitterdelay" ->
           {"timestamp", "type", "dl_jitter", "ul_jitter", "uldci_jitter",
            "txdata_jitter", "dl_delay", "ul_delay", "uldci_delay",
            "txdata_delay", "abnormal"}
      [] type = "vnf-dltti" -> {"timestamp", "type", "dl_delay", "abnormal"}
      [] type = "vnf-txdata" ->
           {"timestamp", "type", "txdata_delay", "abnormal"}
      [] type = "vnf-sync" ->
           {"timestamp", "type", "sync_adjustment", "vnf_slotnum"}
      [] type \in {"pnf-dltti", "pnf-txdata", "pnf-ultti"} ->
           {"timestamp", "type", "slotnum", "timing_status", "delta_us"}

RecordTypes ==
    {"vnf-jitterdelay", "vnf-dltti", "vnf-txdata", "vnf-sync",
     "pnf-dltti", "pnf-txdata", "pnf-ultti"}

(***************************************************************************)
(* C17: the fields of a record returned by parse_line are those of its     *)
(* type and no others: two records of one type have the same fields,       *)
(* whatever their values, and a field the type does not define is absent.  *)
(***************************************************************************)
C17_FieldsByType ==
    Parsing =>
      \A rec \in ParsedRecords \cup (IF ret.kind = "record" THEN {ret.rec} ELSE {}) :
          rec.type \in RecordTypes /\ DOMAIN rec = FieldsOf(rec.type)

\* a sync record and a PNF record holding the sentinel, each with exactly the
\* fields of its type
C17_Witness ==
    /\ Parsing
    /\ Len(parser_data) = 2
    /\ parser_data[1].type = "vnf-sync"
    /\ DOMAIN parser_data[1] =
          {"timestamp", "type", "sync_adjustment", "vnf_slotnum"}
    /\ parser_data[2].type = "pnf-dltti"
    /\ parser_data[2].delta_us = 0 - Sentinel
    /\ DOMAIN parser_data[2] =
          {"timestamp", "type", "slotnum", "timing_status", "delta_us"}

(***************************************************************************)
(* t1-t4/slot_analyzer.py.  The timestamps of its logs are whole           *)
(* milliseconds, given in microseconds, so that (curr - prev) * 1000 of    *)
(* the source, a number of milliseconds, is (curr - prev) \div 1000 here.  *)
(* A mean or a median is the exact fraction num / den; the quotient 0 / 0  *)
(* is the NaN that numpy returns for the mean of nothing.                  *)
(***************************************************************************)
MaxSlotEntries == 3

SlotIds == {<<3, 7>>, <<3, 8>>, <<3, 9>>}

SlotTimeStamps == {1000, 3000, 4000}

\* the entries parse_log_file returns: T1 of any slot, and one other event
SlotEntrySet ==
    [timestamp : SlotTimeStamps, frame : {3}, slot : {7, 8, 9}, event : {"t1"}]
      \cup [timestamp : {1000}, frame : {3}, slot : {7}, event : {"t2"}]

IndexOfSlot(d, key) ==
    IF \E i \in DOMAIN d : d[i].key = key
    THEN CHOOSE i \in DOMAIN d : d[i].key = key
    ELSE 0

\* t1_slots[slot_id] = entry['timestamp']: a dict keeps the place of a key
PutSlot(d, key, ts) ==
    IF IndexOfSlot(d, key) = 0
    THEN Append(d, [key |-> key, ts |-> ts])
    ELSE [d EXCEPT ![IndexOfSlot(d, key)].ts = ts]

RECURSIVE ExtractFrom(_, _, _)
ExtractFrom(es, i, d) ==
    IF i > Len(es) THEN d
    ELSE ExtractFrom(es, i + 1,
           IF es[i].event = "t1"
           THEN PutSlot(d, <<es[i].frame, es[i].slot>>, es[i].timestamp)
           ELSE d)

extract_t1_slots(es) == ExtractFrom(es, 1, <<>>)

\* one step of a stable sort: x goes behind everything not later than it
InsertByTime(sorted, x) ==
    LET n == Cardinality({i \in DOMAIN sorted : sorted[i].ts <= x.ts})
    IN  SubSeq(sorted, 1, n) \o <<x>> \o SubSeq(sorted, n + 1, Len(sorted))

RECURSIVE SortFrom(_, _, _)
SortFrom(d, i, sorted) ==
    IF i > Len(d) THEN sorted
    ELSE SortFrom(d, i + 1, InsertByTime(sorted, d[i]))

\* sorted(t1_slots.items(), key=lambda x: x[1])
SortedSlots(d) == SortFrom(d, 1, <<>>)

\* f"F{curr_slot[0]}_S{curr_slot[1]}"
SlotLabel(key) == <<"F", key[1], "_S", key[2]>>

\* adjacent differences in dict order, without the sort
calculate_intervals_unsorted(d) ==
    IF Len(d) < 2
    THEN [slot_labels |-> <<>>, intervals_ms |-> <<>>]
    ELSE [slot_labels |-> [i \in 1..(Len(d) - 1) |-> SlotLabel(d[i + 1].key)],
          intervals_ms |->
            [i \in 1..(Len(d) - 1) |-> (d[i + 1].ts - d[i].ts) \div 1000]]

calculate_intervals(d) ==
    IF Len(d) < 2
    THEN [slot_labels |-> <<>>, intervals_ms |-> <<>>]
    ELSE LET ss == SortedSlots(d)
         IN  [slot_labels |-> [i \in 1..(Len(ss) - 1) |-> SlotLabel(ss[i + 1].key)],
              intervals_ms |->
                [i \in 1..(Len(ss) - 1) |-> (ss[i + 1].ts - ss[i].ts) \div 1000]]

RECURSIVE SeqSum(_)
SeqSum(xs) == IF xs = <<>> THEN 0 ELSE Head(xs) + SeqSum(Tail(xs))

SeqMin(xs) == CHOOSE m \in {xs[i] : i \in DOMAIN xs} : \A i \in DOMAIN xs : m <= xs[i]

SeqMax(xs) == CHOOSE m \in {xs[i] : i \in DOMAIN xs} : \A i \in DOMAIN xs : xs[i] <= m

\* np.mean: the sum over the count, which is 0 / 0 for the empty list
Mean(xs) == [num |-> SeqSum(xs), den |-> Len(xs)]

\* the square of np.std: the mean of the squared distances from the mean,
\* (n * sum(x^2) - sum(x)^2) / n^2
StdSquared(xs) ==
    [num |-> Len(xs) * SeqSum([i \in DOMAIN xs |-> xs[i] * xs[i]])
               - SeqSum(xs) * SeqSum(xs),
     den |-> Len(xs) * Len(xs)]

\* the i-th smallest value
Ranked(xs, i) ==
    CHOOSE v \in {xs[j] : j \in DOMAIN xs} :
        /\ Cardinality({j \in DOMAIN xs : xs[j] < v}) < i
        /\ Cardinality({j \in DOMAIN xs : xs[j] <= v}) >= i

\* np.median: the middle value, or the mean of the two middle values
Median(xs) ==
    LET n == Len(xs)
    IN  IF n % 2 = 1
        THEN [num |-> Ranked(xs, (n + 1) \div 2), den |-> 1]
        ELSE [num |-> Ranked(xs, n \div 2) + Ranked(xs, n \div 2 + 1), den |-> 2]

\* what print_statistics prints: only a notice when there is nothing
print_statistics(xs) ==
    IF xs = <<>>
    THEN [count |-> 0]
    ELSE [count |-> Len(xs), min |-> SeqMin(xs), max |-> SeqMax(xs),
          mean |-> Mean(xs), std_squared |-> StdSquared(xs),
          median |-> Median(xs)]

(***************************************************************************)
(* t1-t4/slot_analyzer.py: main.                                           *)
(***************************************************************************)
InitSlots ==
    program = "t1-t4/slot_analyzer.py" /\ pc = "parse_log_file" /\ InitCommon

\* parse_log_file appends the entry of the next matching line
SlotParse ==
    /\ program = "t1-t4/slot_analyzer.py"
    /\ pc = "parse_log_file"
    /\ Len(entries) < MaxSlotEntries
    /\ \E entry \in SlotEntrySet : entries' = Append(entries, entry)
    /\ UNCHANGED <<program, pc, start_map, pairs, data, results, filtered,
                   mainVars, prbVars, parseVars, slotVars, statVars,
                   mergeVars>>

\* the file is exhausted: t1_slots = extract_t1_slots(entries)
ExtractT1 ==
    /\ program = "t1-t4/slot_analyzer.py"
    /\ pc = "parse_log_file"
    /\ t1_slots' = extract_t1_slots(entries)
    /\ pc' = "calculate_intervals"
    /\ UNCHANGED <<program, entries, start_map, pairs, data, results,
                   filtered, mainVars, prbVars, parseVars, slot_labels,
                   intervals_ms, stats, avg_interval, statVars, mergeVars>>

\* slot_labels, intervals_ms = calculate_intervals(t1_slots)
CalculateIntervals ==
    /\ program = "t1-t4/slot_analyzer.py"
    /\ pc = "calculate_intervals"
    /\ slot_labels' = calculate_intervals(t1_slots).slot_labels
    /\ intervals_ms' = calculate_intervals(t1_slots).intervals_ms
    /\ pc' = "print_statistics"
    /\ UNCHANGED <<program, entries, start_map, pairs, data, results,
                   filtered, mainVars, prbVars, parseVars, t1_slots, stats,
                   avg_interval, statVars, mergeVars>>

PrintStatistics ==
    /\ program = "t1-t4/slot_analyzer.py"
    /\ pc = "print_statistics"
    /\ stats' = print_statistics(intervals_ms)
    /\ pc' = "plot_intervals"
    /\ UNCHANGED <<program, entries, start_map, pairs, data, results,
                   filtered, mainVars, prbVars, parseVars, t1_slots,
                   slot_labels, intervals_ms, avg_interval, statVars,
                   mergeVars>>

\* plot_intervals: avg_interval = np.mean(intervals_ms), drawn by axhline
PlotIntervals ==
    /\ program = "t1-t4/slot_analyzer.py"
    /\ pc = "plot_intervals"
    /\ avg_interval' = Mean(intervals_ms)
    /\ pc' = "done"
    /\ UNCHANGED <<program, entries, start_map, pairs, data, results,
                   filtered, mainVars, prbVars, parseVars, t1_slots,
                   slot_labels, intervals_ms, stats, statVars, mergeVars>>

NextSlots ==
    SlotParse \/ ExtractT1 \/ CalculateIntervals \/ PrintStatistics
      \/ PlotIntervals

SpecSlots == InitSlots /\ [][NextSlots]_vars

(***************************************************************************)
(* The statistics of slot_analyzer.py, as the claims see them.             *)
(***************************************************************************)
StatsPrinted ==
    program = "t1-t4/slot_analyzer.py" /\ pc \in {"plot_intervals", "done"}

AveragePlotted == program = "t1-t4/slot_analyzer.py" /\ pc = "done"

IsNaN(q) == q.den = 0

\* the fraction q is the whole number v
IsValue(q, v) == q.den # 0 /\ q.num = v * q.den

(***************************************************************************)
(* C12: over no interval the statistics are count 0 with mean, std-dev and *)
(* median absent, and no NaN goes on to what is drawn; over one interval v *)
(* they are count 1, mean = min = max = median = v and std-dev 0.          *)
(* plot_intervals takes the mean of an empty list, so this fails.          *)
(***************************************************************************)
C12_DegenerateStatistics ==
    /\ StatsPrinted =>
          /\ intervals_ms = <<>> =>
                /\ stats.count = 0
                /\ (DOMAIN stats) \cap {"mean", "std_squared", "median"} = {}
          /\ Len(intervals_ms) = 1 =>
                /\ stats.count = 1
                /\ IsValue(stats.mean, intervals_ms[1])
                /\ stats.min = intervals_ms[1]
                /\ stats.max = intervals_ms[1]
                /\ IsValue(stats.median, intervals_ms[1])
                /\ IsValue(stats.std_squared, 0)
    /\ AveragePlotted =>
          /\ ~IsNaN(avg_interval)
          /\ Len(intervals_ms) = 1 => IsValue(avg_interval, intervals_ms[1])

(***************************************************************************)
(* main of script.py and of t1-t4/script.py: the log files named on the    *)
(* command line are processed one after the other.  A file named twice is  *)
(* read twice with the same content.                                       *)
(***************************************************************************)
MaxLogEntries == 2

MaxSameLog == 4

MainSlots == {7, 8}

MainPairEntrySet ==
    [timestamp : {1000000, 1000100}, frame : Frames, slot : MainSlots,
     event : {<<"start">>, <<"stop-", "foo">>}]

MainChainEntrySet ==
    [timestamp : {100, 250}, frame : Frames, slot : MainSlots,
     event : {"t3", "t4-ultti"}]

\* sys.argv[1:]
ArgvSet == {<<"a.txt", "a.txt">>, <<"a.txt", "b.txt">>}

NewCall_keep_pairs(sm, ps) == [start_map |-> EmptyMap, pairs |-> ps]

NewCall_keep_starts(sm, ps) == [start_map |-> sm, pairs |-> EmptyMap]

\* a call of create_pairs, whatever tables sm and ps the call before it
\* left: start_map = {} and pairs = defaultdict(list)
NewCall(sm, ps) == [start_map |-> EmptyMap, pairs |-> EmptyMap]

RECURSIVE CreatePairsFrom(_, _, _, _)
CreatePairsFrom(es, i, sm, ps) ==
    IF i > Len(es) THEN ps
    ELSE CreatePairsFrom(es, i + 1, ProcessEntry(sm, ps, es[i]).start_map,
                         ProcessEntry(sm, ps, es[i]).pairs)

\* create_pairs(entries), as a function of the entries
create_pairs(es) == CreatePairsFrom(es, 1, EmptyMap, EmptyMap)

RECURSIVE OrganizeFrom(_, _, _)
OrganizeFrom(es, i, d) ==
    IF i > Len(es) THEN d ELSE OrganizeFrom(es, i + 1, OrganizeStep(d, es[i]))

\* organize_by_frame_slot(entries), as a function of the entries
organize_by_frame_slot(es) == OrganizeFrom(es, 1, <<>>)

\* the log file in hand is the first one again
SameAsFirst == Len(all_in) = 1 /\ log_files[2] = log_files[1]

\* the next line of the log file in hand can hold this entry
CanRead(entry) ==
    IF SameAsFirst
    THEN Len(entries) < Len(all_in[1]) /\ entry = all_in[1][Len(entries) + 1]
    ELSE IF log_files[2] = log_files[1]
    THEN Len(entries) < MaxSameLog
    ELSE Len(entries) < MaxLogEntries

\* the log file in hand can end here
AtEof == SameAsFirst => Len(entries) = Len(all_in[1])

InitMain ==
    /\ program \in {"script.py", "t1-t4/script.py"}
    /\ pc = "main"
    /\ InitCommon

\* log_files = sys.argv[1:]
MainArgs ==
    /\ pc = "main"
    /\ \E argv \in ArgvSet : log_files' = argv
    /\ pc' = "main_loop"
    /\ UNCHANGED <<program, entries, start_map, pairs, data, results,
                   filtered, all_in, all_out, prbVars, parseVars, slotVars,
                   statVars, mergeVars>>

\* script.py: create_pairs takes the next entry of the log file in hand
MainCreatePairsStep ==
    /\ program = "script.py"
    /\ pc = "main_loop"
    /\ \E entry \in MainPairEntrySet :
         /\ CanRead(entry)
         /\ entries' = Append(entries, entry)
         /\ start_map' = ProcessEntry(start_map, pairs, entry).start_map
         /\ pairs' = ProcessEntry(start_map, pairs, entry).pairs
    /\ UNCHANGED <<program, pc, data, results, filtered, extraVars>>

\* script.py: all_pairs_dict[suffix] = pairs, and the loop goes on to the
\* next log file, where create_pairs is called anew
MainPairsDone ==
    /\ program = "script.py"
    /\ pc = "main_loop"
    /\ AtEof
    /\ all_in' = Append(all_in, entries)
    /\ all_out' = Append(all_out, pairs)
    /\ IF Len(all_in) + 1 < Len(log_files)
       THEN /\ entries' = <<>>
            /\ start_map' = NewCall(start_map, pairs).start_map
            /\ pairs' = NewCall(start_map, pairs).pairs
            /\ pc' = pc
       ELSE /\ pc' = "main_done"
            /\ UNCHANGED <<entries, start_map, pairs>>
    /\ UNCHANGED <<program, data, results, filtered, log_files, prbVars,
                   parseVars, slotVars, statVars, mergeVars>>

\* t1-t4/script.py: organize_by_frame_slot takes the next entry
MainOrganize ==
    /\ program = "t1-t4/script.py"
    /\ pc = "main_loop"
    /\ \E entry \in MainChainEntrySet :
         /\ CanRead(entry)
         /\ entries' = Append(entries, entry)
         /\ data' = OrganizeStep(data, entry)
    /\ UNCHANGED <<program, pc, start_map, pairs, results, filtered,
                   extraVars>>

\* t1-t4/script.py: results = calculate_time_differences(data),
\* all_results[suffix] = results, and the loop goes on to the next log
\* file, where organize_by_frame_slot builds a new OrderedDict
MainChainDone ==
    /\ program = "t1-t4/script.py"
    /\ pc = "main_loop"
    /\ AtEof
    /\ results' = calculate_time_differences(data)
    /\ all_in' = Append(all_in, entries)
    /\ all_out' = Append(all_out, results')
    /\ IF Len(all_in) + 1 < Len(log_files)
       THEN entries' = <<>> /\ data' = <<>> /\ pc' = pc
       ELSE pc' = "main_done" /\ UNCHANGED <<entries, data>>
    /\ UNCHANGED <<program, start_map, pairs, filtered, log_files, prbVars,
                   parseVars, slotVars, statVars, mergeVars>>

NextMain ==
    MainArgs \/ MainCreatePairsStep \/ MainPairsDone \/ MainOrganize
      \/ MainChainDone

SpecMain == InitMain /\ [][NextMain]_vars

(***************************************************************************)
(* C13: when main has correlated two logs with the same entries, the       *)
(* second result is the first one again: the same categories, and in each  *)
(* the same intervals in the same order.  This holds for create_pairs and  *)
(* for organize_by_frame_slot followed by calculate_time_differences.      *)
(***************************************************************************)
C13_SameInputSameOutput ==
    (Len(all_in) = 2 /\ all_in[1] = all_in[2]) => all_out[1] = all_out[2]

\* the checkpoint chain has run twice on a log of two keys, and both times
\* it gave two t3-t4 intervals of different duration, in the same order
C13_Witness ==
    /\ program = "t1-t4/script.py"
    /\ pc = "main_done"
    /\ log_files[1] = log_files[2]
    /\ Len(all_in) = 2
    /\ Len(all_out[1]["ultti"]["t3-t4"]) = 2
    /\ all_out[1]["ultti"]["t3-t4"][1].duration_us
          # all_out[1]["ultti"]["t3-t4"][2].duration_us
    /\ all_out[2]["ultti"]["t3-t4"] = all_out[1]["ultti"]["t3-t4"]

(***************************************************************************)
(* Two logs correlated one by one, and their entries correlated as one     *)
(* sequence.                                                               *)
(***************************************************************************)
BothDone == pc = "main_done" /\ Len(all_in) = 2

KeysIn(es) == {<<es[i].frame, es[i].slot>> : i \in DOMAIN es}

Elems(xs) == {xs[i] : i \in DOMAIN xs}

CountIn(xs, x) == Cardinality({i \in DOMAIN xs : xs[i] = x})

\* the intervals of xs and those of ys are, as a multiset, those of zs
BagUnionIs(xs, ys, zs) ==
    \A x \in Elems(xs) \cup Elems(ys) \cup Elems(zs) :
        CountIn(xs, x) + CountIn(ys, x) = CountIn(zs, x)

\* the pairs of a category, none when create_pairs made no such category
PairsOf(ps, suffix) == IF suffix \in DOMAIN ps THEN ps[suffix] ELSE <<>>

WholePairs == create_pairs(all_in[1] \o all_in[2])

WholeResults ==
    calculate_time_differences(organize_by_frame_slot(all_in[1] \o all_in[2]))

(***************************************************************************)
(* C14: when no key occurs in both of two logs, the intervals of the first *)
(* log together with those of the second are, category by category and as  *)
(* a multiset, the intervals of the two logs correlated as one sequence,   *)
(* in Start/Stop mode and in checkpoint-chain mode.                        *)
(***************************************************************************)
C14_SplitByKey ==
    (BothDone /\ KeysIn(all_in[1]) \cap KeysIn(all_in[2]) = {}) =>
      IF program = "script.py"
      THEN \A suffix \in (DOMAIN all_out[1]) \cup (DOMAIN all_out[2])
                            \cup (DOMAIN WholePairs) :
               BagUnionIs(PairsOf(all_out[1], suffix),
                          PairsOf(all_out[2], suffix),
                          PairsOf(WholePairs, suffix))
      ELSE \A c \in Categories : \A n \in IntervalNames :
               BagUnionIs(all_out[1][c][n], all_out[2][c][n],
                          WholeResults[c][n])

\* each of two logs about different keys gave a pair of its own
C14_Witness ==
    /\ program = "script.py"
    /\ BothDone
    /\ KeysIn(all_in[1]) \cap KeysIn(all_in[2]) = {}
    /\ Len(PairsOf(all_out[1], <<"foo">>)) = 1
    /\ Len(PairsOf(all_out[2], <<"foo">>)) = 1
    /\ Len(PairsOf(WholePairs, <<"foo">>)) = 2

\* script.py is at its second log file, or has finished it: entries,
\* start_map and pairs are those of the second call of create_pairs
SecondSource == program = "script.py" /\ Len(all_in) >= 1

(***************************************************************************)
(* C19: the second call of create_pairs begins with an empty table of      *)
(* starts; the table holds only starts of the second source, and every     *)
(* pair of the second source is a stop of the second source measured       *)
(* against the last start before it in the second source.  A start seen    *)
(* in the first source never pairs with a stop of the second.              *)
(***************************************************************************)
C19_StartTableLocal ==
    SecondSource =>
      /\ entries = <<>> => start_map = EmptyMap
      /\ \A key \in DOMAIN start_map :
            \E i \in DOMAIN entries : IsStartAt(i, key)
      /\ \A id \in PairIds :
            \E i \in MatchedStops(<<PairAt(id).frame, PairAt(id).slot>>) :
              /\ PairAt(id).stop_timestamp = entries[i].timestamp
              /\ PairAt(id).start_timestamp =
                    entries[LastStartBefore(i,
                        <<PairAt(id).frame, PairAt(id).slot>>)].timestamp

\* the first source had a start of slot 7, the second source has a stop of
\* slot 7 and no start of it, and no pair of slot 7 was made
C19_Witness ==
    /\ SecondSource
    /\ \E i \in DOMAIN all_in[1] :
          all_in[1][i].event = <<"start">> /\ all_in[1][i].slot = 7
    /\ \E i \in DOMAIN entries : IsStopAt(i, <<3, 7>>)
    /\ \A i \in DOMAIN entries : ~IsStartAt(i, <<3, 7>>)
    /\ PairIdsOfKey(<<3, 7>>) = {}
    /\ <<3, 7>> \notin DOMAIN start_map

(***************************************************************************)
(* PRB/log_parser.py: parse_log_file.                                      *)
(***************************************************************************)
MaxPrbLines == 3

\* what re.match makes of a line: no match, or the five groups
PrbLineSet ==
    {[match |-> FALSE]}
      \cup [match : {TRUE}, timestamp : {1000000}, frame : Frames,
            slot : {7}, ue_id : {"a1", "b2"}, size : {10, 20}]

\* ue_data[ue_id].append({...}) on a defaultdict(list)
PrbAppend(ud, l) ==
    [u \in DOMAIN ud \cup {l.ue_id} |->
        IF u = l.ue_id
        THEN Append(IF u \in DOMAIN ud THEN ud[u] ELSE <<>>,
                    [timestamp |-> l.timestamp, frame |-> l.frame,
                     slot |-> l.slot, size |-> l.size])
        ELSE ud[u]]

InitPrb == program = "PRB/log_parser.py" /\ pc = "parse_log_file" /\ InitCommon

\* for line in f: a matching line is appended under its UE
PrbParseLine ==
    /\ program = "PRB/log_parser.py"
    /\ pc = "parse_log_file"
    /\ lines_read < MaxPrbLines
    /\ lines_read' = lines_read + 1
    /\ \E l \in PrbLineSet :
         ue_data' = IF l.match THEN PrbAppend(ue_data, l) ELSE ue_data
    /\ UNCHANGED <<program, pc, entries, start_map, pairs, data, results,
                   filtered, line, ret, parser_data, slotVars, mainVars,
                   exit_code, statVars, mergeVars>>

\* the file is exhausted: sys.exit(1) if not ue_data, else return ue_data
PrbParseEnd ==
    /\ program = "PRB/log_parser.py"
    /\ pc = "parse_log_file"
    /\ IF DOMAIN ue_data = {}
       THEN pc' = "exited" /\ exit_code' = 1
       ELSE pc' = "returned" /\ exit_code' = exit_code
    /\ UNCHANGED <<program, entries, start_map, pairs, data, results,
                   filtered, parseVars, slotVars, mainVars, ue_data,
                   statVars, mergeVars>>

NextPrb == PrbParseLine \/ PrbParseEnd

SpecPrb == InitPrb /\ [][NextPrb]_vars

(***************************************************************************)
(* Any one of the programs.                                                *)
(***************************************************************************)
InitAll ==
    InitPairs \/ InitChain \/ InitParse \/ InitSlots \/ InitMain \/ InitPrb

NextAll ==
    \/ CreatePairsStep \/ Organize \/ Calculate \/ Plot
    \/ ParseLine \/ ParseEnd
    \/ SlotParse \/ ExtractT1 \/ CalculateIntervals \/ PrintStatistics
    \/ PlotIntervals
    \/ MainArgs \/ MainCreatePairsStep \/ MainPairsDone \/ MainOrganize
    \/ MainChainDone
    \/ PrbParseLine \/ PrbParseEnd

SpecAll == InitAll /\ [][NextAll]_vars

(***************************************************************************)
(* C18: empty input is not an error.  create_pairs on a log without        *)
(* entries returns no pairs; calculate_time_differences on no data returns *)
(* the four categories without intervals; calculate_intervals on fewer     *)
(* than two T1 slots returns two empty lists; and a parse_log_file that    *)
(* found no entry returns its empty collection and does not end the        *)
(* program.  parse_log_file of PRB/log_parser.py calls sys.exit(1).        *)
(***************************************************************************)
C18_EmptyInputNoError ==
    /\ program = "script.py" =>
          \A k \in DOMAIN all_in : all_in[k] = <<>> => all_out[k] = EmptyMap
    /\ (Calculated /\ data = <<>>) => results = EmptyResults
    /\ (program = "t1-t4/slot_analyzer.py"
           /\ pc \in {"print_statistics", "plot_intervals", "done"}
           /\ Len(t1_slots) < 2) =>
          slot_labels = <<>> /\ intervals_ms = <<>>
    /\ (program = "PRB/log_parser.py" /\ DOMAIN ue_data = {}) =>
          pc # "exited" /\ exit_code = None

\* the one timestamp recorded for a checkpoint that was recorded once
Once(item, kind) == Recorded(item, kind) /\ Len(item.events[kind]) = 1

(***************************************************************************)
(* C20: out-of-order input gives a negative interval, not an error.  A     *)
(* stop whose timestamp is smaller than that of the remembered start of    *)
(* its key has a pair with duration_us = stop - start below zero; and a    *)
(* named checkpoint pair of a key whose second checkpoint has the smaller  *)
(* timestamp has an interval with that negative duration, under every      *)
(* terminal variant recorded for the key.  A checkpoint at 0.0 counts as   *)
(* absent in calculate_time_differences, so the second part fails.         *)
(***************************************************************************)
C20_OutOfOrderEmitted ==
    /\ (program = "script.py" /\ pc = "create_pairs") =>
          \A key \in Keys : \A i \in MatchedStops(key) :
              StopDuration(i, key) < 0 =>
                  \E id \in PairIdsOfKey(key) :
                      /\ entries[i].event = <<"stop-">> \o id[1]
                      /\ PairAt(id).stop_timestamp = entries[i].timestamp
                      /\ PairAt(id).duration_us = StopDuration(i, key)
    /\ Calculated =>
          \A i \in 1..Len(data) : \A c \in Categories : \A n \in IntervalNames :
              LET item == data[i]
                  a == EndPoints(n, c)[1]
                  b == EndPoints(n, c)[2]
              IN  (/\ Once(item, T4Kind(c))
                   /\ Once(item, a)
                   /\ Once(item, b)
                   /\ FirstOf(item, b) < FirstOf(item, a)) =>
                      \E j \in DOMAIN IntervalsOf(c, n, item.key) :
                          IntervalsOf(c, n, item.key)[j].duration_us =
                              FirstOf(item, b) - FirstOf(item, a)

(***************************************************************************)
(* C22.  Checkpoint chain: a key for which the terminal checkpoint of a    *)
(* category is not recorded has no interval under that category, whatever  *)
(* else is recorded for it; so a key with none of t4-ultti, t4-uldci,      *)
(* t4-dltti and t4-txdata has no interval at all, and t1-t2, t2-t3 and     *)
(* t1-t5 appear only under a category whose terminal checkpoint the key    *)
(* has.                                                                    *)
(***************************************************************************)
C22_NoTerminalNoIntervals ==
    Calculated =>
        \A i \in 1..Len(data) : \A c \in Categories :
            ~Recorded(data[i], T4Kind(c)) =>
                \A n \in IntervalNames :
                    IntervalsOf(c, n, data[i].key) = <<>>

\* t1, t2, t3 and t5 recorded with non-zero timestamps, no terminal
\* checkpoint, and the calculation has run
C22_Witness ==
    /\ Calculated
    /\ \E i \in 1..Len(data) :
          /\ \A k \in {"t1", "t2", "t3", "t5"} :
                Recorded(data[i], k) /\ FirstOf(data[i], k) # 0
          /\ \A c \in Categories : ~Recorded(data[i], T4Kind(c))
          /\ \A c \in Categories : \A n \in IntervalNames :
                IntervalsOf(c, n, data[i].key) = <<>>

(***************************************************************************)
(* The stop events of the log that create_pairs turns into intervals.     *)
(***************************************************************************)
EntryKey(i) == <<entries[i].frame, entries[i].slot>>

\* positions of the stops of a suffix that have an earlier start of their
\* key no more than the ceiling before them
EmittingStops(suffix) ==
    {i \in 1..Len(entries) :
        /\ entries[i].event = <<"stop-">> \o suffix
        /\ StartsBefore(i, EntryKey(i)) # {}
        /\ StopDuration(i, EntryKey(i)) <= 100}

\* the n-th position of a set of positions, in input order
NthOf(S, n) == CHOOSE i \in S : Cardinality({j \in S : j <= i}) = n

Suffixes == {Suffix(e) : e \in {ev \in Events : StartsWithStop(ev)}}

\* the stop just read measures more than the ceiling against the
\* remembered start of its key
ReadsLateStop ==
    /\ ReadsOne
    /\ LET i == Len(entries')
           e == entries'[i]
       IN  /\ StartsWithStop(e.event)
           /\ <<e.frame, e.slot>> \in DOMAIN start_map
           /\ e.timestamp - start_map[<<e.frame, e.slot>>] > 100

PairsWellFormed ==
    /\ DOMAIN pairs \subseteq Suffixes
    /\ \A id \in PairIds :
          PairAt(id).duration_us <= 100 /\ PairAt(id).suffix = id[1]
    /\ \A suffix \in Suffixes :
          IF EmittingStops(suffix) = {} THEN suffix \notin DOMAIN pairs
          ELSE /\ suffix \in DOMAIN pairs
               /\ Len(pairs[suffix]) = Cardinality(EmittingStops(suffix))
               /\ \A n \in 1..Len(pairs[suffix]) :
                     LET i == NthOf(EmittingStops(suffix), n)
                         pair == pairs[suffix][n]
                     IN  /\ <<pair.frame, pair.slot>> = EntryKey(i)
                         /\ pair.stop_timestamp = entries[i].timestamp
                         /\ pair.duration_us = StopDuration(i, EntryKey(i))

(***************************************************************************)
(* C24.  create_pairs: after any log, every interval of the output has a  *)
(* duration of at most 100 microseconds and sits in the list named by its *)
(* own suffix, and the list of a suffix holds the intervals of its stops  *)
(* in the order the stops were read; a stop that measures more than 100   *)
(* microseconds leaves the output and the remembered starts as they were. *)
(***************************************************************************)
C24_OutputInvariant ==
    /\ []PairsWellFormed
    /\ [][ReadsLateStop => (pairs' = pairs /\ start_map' = start_map)]_vars

\* a start, a stop within the ceiling and a stop beyond it have been read:
\* one interval, and the start is still remembered
C24_Witness ==
    \E i, j \in 1..Len(entries) :
        /\ i \in EmittingStops(Suffix(entries[i].event))
        /\ IsStopAt(j, EntryKey(i))
        /\ StartsBefore(j, EntryKey(i)) # {}
        /\ StopDuration(j, EntryKey(i)) > 100
        /\ EntryKey(i) \in DOMAIN start_map
        /\ Cardinality(PairIds) = 1

(***************************************************************************)
(* What create_pairs holds for one key.                                    *)
(***************************************************************************)
\* the remembered start of a key (None: no start remembered)
StartOf(sm, key) == IF key \in DOMAIN sm THEN sm[key] ELSE None

\* the intervals of a key in the list of a suffix, in list order
IntervalsOfKey(ps, suffix, key) ==
    IF suffix \in DOMAIN ps
    THEN SelectSeq(ps[suffix], LAMBDA pr : <<pr.frame, pr.slot>> = key)
    ELSE <<>>

\* the events of the log that carry a key, in input order
EventsOfKey(key) ==
    SelectSeq(entries, LAMBDA e : <<e.frame, e.slot>> = key)

\* reading one event leaves every other key as it was
OtherKeysUntouched ==
    ReadsOne =>
        LET e == entries'[Len(entries')]
        IN  \A key \in Keys \ {<<e.frame, e.slot>>} :
                /\ StartOf(start_map', key) = StartOf(start_map, key)
                /\ \A suffix \in Suffixes :
                      IntervalsOfKey(pairs', suffix, key) =
                          IntervalsOfKey(pairs, suffix, key)

\* the intervals of a key are those create_pairs gives for the events of
\* that key alone
IntervalsFromOwnEvents ==
    \A key \in Keys : \A suffix \in Suffixes :
        IntervalsOfKey(pairs, suffix, key) =
            IntervalsOfKey(create_pairs(EventsOfKey(key)), suffix, key)

(***************************************************************************)
(* C23.  Start/Stop mode: reading an event of one key changes neither the *)
(* remembered start nor the intervals of any other key, and the intervals *)
(* of a key are those of the sub-sequence of the events of that key, so   *)
(* events of other keys in between do not change them.                     *)
(***************************************************************************)
C23_KeyIsolation ==
    /\ []IntervalsFromOwnEvents
    /\ [][OtherKeysUntouched]_vars

\* a start and a stop of one key with an event of another key between
\* them, and the interval of the first key is there
C23_Witness ==
    \E key \in Keys : \E i, j, l \in 1..Len(entries) :
        /\ i < j /\ j < l
        /\ IsStartAt(i, key)
        /\ EntryKey(j) # key
        /\ IsStopAt(l, key)
        /\ PairIdsOfKey(key) # {}
        /\ StartOf(start_map, EntryKey(j)) # None

(***************************************************************************)
(* The T1 events of the log, as the claims about calculate_intervals see   *)
(* them.                                                                   *)
(***************************************************************************)
IntervalsCalculated ==
    /\ program = "t1-t4/slot_analyzer.py"
    /\ pc \in {"print_statistics", "plot_intervals", "done"}

IsT1At(i, key) ==
    entries[i].event = "t1" /\ <<entries[i].frame, entries[i].slot>> = key

\* the keys that have a t1 event
T1Keys == {key \in SlotIds : \E i \in 1..Len(entries) : IsT1At(i, key)}

\* the T1 timestamp of a key: that of its last t1 event
T1Of(key) ==
    LET last == CHOOSE i \in 1..Len(entries) :
                    /\ IsT1At(i, key)
                    /\ \A j \in 1..Len(entries) : IsT1At(j, key) => j <= i
    IN  entries[last].timestamp

\* the ways of listing the keys by ascending T1 timestamp
AscendingOrders ==
    LET n == Cardinality(T1Keys)
    IN  {p \in [1..n -> T1Keys] :
            /\ \A i, j \in 1..n : p[i] = p[j] => i = j
            /\ \A i \in 1..(n - 1) : T1Of(p[i]) <= T1Of(p[i + 1])}

(***************************************************************************)
(* C26.  calculate_intervals: with n >= 2 keys that have a t1 event it    *)
(* returns n - 1 labels and n - 1 intervals; with the keys listed by      *)
(* ascending T1 timestamp the i-th interval is the T1 of the (i+1)-th key *)
(* minus the T1 of the i-th key in milliseconds, never negative, and the  *)
(* i-th label names the (i+1)-th key.  With n < 2 both lists are empty.   *)
(***************************************************************************)
C26_AdjacentIntervals ==
    IntervalsCalculated =>
        LET n == Cardinality(T1Keys)
        IN  IF n < 2
            THEN slot_labels = <<>> /\ intervals_ms = <<>>
            ELSE /\ Len(slot_labels) = n - 1
                 /\ Len(intervals_ms) = n - 1
                 /\ \E p \in AscendingOrders : \A i \in 1..(n - 1) :
                       /\ intervals_ms[i] * 1000 = T1Of(p[i + 1]) - T1Of(p[i])
                       /\ intervals_ms[i] >= 0
                       /\ slot_labels[i] = SlotLabel(p[i + 1])

\* three keys whose t1 events were read out of time order
C26_Witness ==
    /\ IntervalsCalculated
    /\ Cardinality(T1Keys) = 3
    /\ \E i, j \in 1..Len(entries) :
          i < j /\ entries[i].timestamp > entries[j].timestamp
    /\ Len(intervals_ms) = 2
    /\ intervals_ms[1] > 0 /\ intervals_ms[2] > 0

(***************************************************************************)
(* The line parse_line was last called on, and what it returned.           *)
(***************************************************************************)
LineTaken == Parsing /\ lines_read > 0

\* exactly one of Jitter(...) and Delays(...) is on the line
OnlyOneOfTwo(l) == Has(l, "jitter") # Has(l, "delays")

\* the recognizers whose record holds a float() of a matched token
ConvertsToken ==
    {"sync", "pnf_dltti_timing", "pnf_dltti_phy", "pnf_txdata_timing",
     "pnf_txdata_phy", "pnf_ultti"}

\* what the recognizer r makes of the line: its record, or the ValueError
\* of the token it converts
HandledBy(l, r) ==
    IF r \in ConvertsToken /\ ~Float(Match(l, r).tok).ok
    THEN ret.kind = "raise"
    ELSE ret.kind = "record" /\ BuiltBy(ret.rec, l, r)

GateShut(l) == l.ts = "" \/ (Float(l.ts).ok /\ Float(l.ts).val = 0)

(***************************************************************************)
(* C28.  parse_line returns a record only for a line that begins with a   *)
(* timestamp token whose value is not zero, and the record carries that   *)
(* value as its timestamp; a line without a leading timestamp token, or   *)
(* with one whose value is 0, returns no record and adds nothing to the   *)
(* parsed data, whatever recognizer matches it.                           *)
(***************************************************************************)
C28_TimestampGate ==
    /\ []((LineTaken /\ ret.kind = "record") =>
            /\ GateOpen(line)
            /\ ret.rec.timestamp = Float(line.ts).val)
    /\ []((LineTaken /\ GateShut(line)) => ret.kind = "none")
    /\ [][(TakesLine /\ GateShut(line')) => parser_data' = parser_data]_vars
    /\ [](Parsing => \A rec \in ParsedRecords : rec.timestamp > 0)

\* after a line that gave a record, a line with timestamp 0 that a
\* recognizer matches gave none
C28_Witness ==
    /\ LineTaken
    /\ line.ts = "0"
    /\ Matching(line) # {}
    /\ ret.kind = "none"
    /\ Len(parser_data) = 1
    /\ parser_data[1].timestamp = 12

(***************************************************************************)
(* t1-t5/merge.py: merge_and_sort_files.  A line is its text and the       *)
(* first bracketed token on it; the token "" stands for no bracket at all  *)
(* and "12" for a bracketed number without a decimal point, which          *)
(* \[(\d+\.\d+)\] does not match.  Timestamps are kept in tenths of a     *)
(* second, so "1.5" and "1.50" are two texts of one timestamp.             *)
(***************************************************************************)
MaxFileLines == 2

MergeLineSet ==
    {[text |-> "a", stamp |-> ""], [text |-> "c", stamp |-> "12"],
     [text |-> "a", stamp |-> "1.5"], [text |-> "b", stamp |-> "1.5"],
     [text |-> "b", stamp |-> "1.50"], [text |-> "a", stamp |-> "0.9"]}

\* float(match.group(1)) of the tokens the pattern matches
StampTable == [tok \in {"0.9", "1.5", "1.50"} |->
                 CASE tok = "0.9" -> 9 [] tok = "1.5" -> 15 [] tok = "1.50" -> 15]

\* re.search(timestamp_pattern, line): a match, or None
StampMatch(l) == l.stamp \in DOMAIN StampTable

\* if match: lines.append((ts, line.rstrip('\n')))
Collect(ls, l) ==
    IF StampMatch(l)
    THEN Append(ls, [ts |-> StampTable[l.stamp], line |-> l])
    ELSE ls

\* an insertion that goes before the elements of equal key
InsertByKey_before(sorted, x) ==
    LET n == Cardinality({i \in DOMAIN sorted : sorted[i].ts < x.ts})
    IN  SubSeq(sorted, 1, n) \o <<x>> \o SubSeq(sorted, n + 1, Len(sorted))

\* one step of the stable sort: x goes behind every element whose key is
\* not greater
InsertByKey(sorted, x) ==
    LET n == Cardinality({i \in DOMAIN sorted : sorted[i].ts <= x.ts})
    IN  SubSeq(sorted, 1, n) \o <<x>> \o SubSeq(sorted, n + 1, Len(sorted))

RECURSIVE SortByKeyFrom(_, _, _)
SortByKeyFrom(ls, i, sorted) ==
    IF i > Len(ls) THEN sorted
    ELSE SortByKeyFrom(ls, i + 1, InsertByKey(sorted, ls[i]))

\* lines.sort(key=lambda x: x[0])
SortByKey(ls) == SortByKeyFrom(ls, 1, <<>>)

InitMerge == program = "t1-t5/merge.py" /\ pc = "read_file1" /\ InitCommon

\* for line in f, in file1
MergeReadFile1 ==
    /\ program = "t1-t5/merge.py"
    /\ pc = "read_file1"
    /\ Len(file1) < MaxFileLines
    /\ \E l \in MergeLineSet :
         file1' = Append(file1, l) /\ lines' = Collect(lines, l)
    /\ UNCHANGED <<program, pc, entries, start_map, pairs, data, results,
                   filtered, parseVars, slotVars, mainVars, prbVars,
                   statVars, file2, output_file>>

\* file1 is exhausted: the loop goes on to file2
MergeNextFile ==
    /\ program = "t1-t5/merge.py"
    /\ pc = "read_file1"
    /\ pc' = "read_file2"
    /\ UNCHANGED <<program, entries, start_map, pairs, data, results,
                   filtered, extraVars>>

\* for line in f, in file2
MergeReadFile2 ==
    /\ program = "t1-t5/merge.py"
    /\ pc = "read_file2"
    /\ Len(file2) < MaxFileLines
    /\ \E l \in MergeLineSet :
         file2' = Append(file2, l) /\ lines' = Collect(lines, l)
    /\ UNCHANGED <<program, pc, entries, start_map, pairs, data, results,
                   filtered, parseVars, slotVars, mainVars, prbVars,
                   statVars, file1, output_file>>

\* file2 is exhausted: lines.sort(...), then every line is written
MergeSortWrite ==
    /\ program = "t1-t5/merge.py"
    /\ pc = "read_file2"
    /\ lines' = SortByKey(lines)
    /\ output_file' = [i \in 1..Len(lines') |-> lines'[i].line]
    /\ pc' = "merged"
    /\ UNCHANGED <<program, entries, start_map, pairs, data, results,
                   filtered, parseVars, slotVars, mainVars, prbVars,
                   statVars, file1, file2>>

NextMerge ==
    MergeReadFile1 \/ MergeNextFile \/ MergeReadFile2 \/ MergeSortWrite

SpecMerge == InitMerge /\ [][NextMerge]_vars

(***************************************************************************)
(* The two input files as the claims about the merge see them.             *)
(***************************************************************************)
Merged == program = "t1-t5/merge.py" /\ pc = "merged"

\* the line carries a bracketed decimal timestamp
Stamped(l) == l.stamp \in {"0.9", "1.5", "1.50"}

\* its value, in tenths of a second
StampOf(l) == CASE l.stamp = "0.9" -> 9 [] l.stamp \in {"1.5", "1.50"} -> 15

\* the stamped lines of file1, then those of file2, in file order
StampedInput == SelectSeq(file1 \o file2, Stamped)

\* where the k-th stamped input line belongs: behind the lines of smaller
\* timestamp and behind the earlier lines of equal timestamp
PlaceOf(k) ==
    Cardinality({m \in DOMAIN StampedInput :
                    \/ StampOf(StampedInput[m]) < StampOf(StampedInput[k])
                    \/ /\ StampOf(StampedInput[m]) = StampOf(StampedInput[k])
                       /\ m < k}) + 1

(***************************************************************************)
(* C25.  merge_and_sort_files: the output holds exactly the lines of the  *)
(* two files that carry a bracketed decimal timestamp, each as often as   *)
(* it occurs in the inputs, in non-decreasing order of timestamp; lines   *)
(* of equal timestamp keep their input order, those of the first file     *)
(* before those of the second; lines without such a timestamp are not in  *)
(* the output.                                                             *)
(***************************************************************************)
C25_StableMerge ==
    Merged =>
        /\ Len(output_file) = Len(StampedInput)
        /\ \A l \in MergeLineSet :
              CountIn(output_file, l) =
                  IF Stamped(l) THEN CountIn(file1, l) + CountIn(file2, l)
                  ELSE 0
        /\ \A i, j \in DOMAIN output_file :
              i < j => StampOf(output_file[i]) <= StampOf(output_file[j])
        /\ \A k \in DOMAIN StampedInput :
              output_file[PlaceOf(k)] = StampedInput[k]

\* file1 holds a line without a timestamp and a line "b" of timestamp 1.5
\* written 1.50, file2 a line "a" of timestamp 1.5 and then one of 0.9:
\* the output is the line of 0.9, then "b", then "a"
C25_Witness ==
    /\ Merged
    /\ \E i \in DOMAIN file1 : ~Stamped(file1[i])
    /\ [text |-> "b", stamp |-> "1.50"] \in Elems(file1)
    /\ file2 = <<[text |-> "a", stamp |-> "1.5"],
                 [text |-> "a", stamp |-> "0.9"]>>
    /\ output_file = <<[text |-> "a", stamp |-> "0.9"],
                       [text |-> "b", stamp |-> "1.50"],
                       [text |-> "a", stamp |-> "1.5"]>>

(***************************************************************************)
(* script.py: the statistics plot_individual_pairs puts in the text box of *)
(* one suffix.  duration_us is a Python float, and sum() adds floats one   *)
(* after the other, rounding each partial sum to the nearest float, ties   *)
(* to the even significand.  The model keeps that arithmetic with a        *)
(* significand of SignificandBits bits (a double has 53) and with the      *)
(* spacing of the smallest floats as its unit, so a float is a natural     *)
(* number m * 2^k with m < 2^SignificandBits.                              *)
(***************************************************************************)
MaxDurations == 3

SignificandBits == 4

RECURSIVE Pow2(_)
Pow2(k) == IF k = 0 THEN 1 ELSE 2 * Pow2(k - 1)

\* the spacing of the floats around x
RECURSIVE Ulp(_)
Ulp(x) == IF x < Pow2(SignificandBits) THEN 1 ELSE 2 * Ulp(x \div 2)

\* the float nearest to num / den, ties to the even significand
RoundToFloat(num, den) ==
    LET u == Ulp(num \div den)
        q == num \div (den * u)
        r == num - q * den * u
    IN  IF 2 * r < den * u THEN q * u
        ELSE IF 2 * r > den * u THEN (q + 1) * u
        ELSE IF q % 2 = 0 THEN q * u ELSE (q + 1) * u

\* a + b of two floats
FloatAdd(a, b) == RoundToFloat(a + b, 1)

\* a / n of a float and an int
FloatDiv(a, n) == RoundToFloat(a, n)

\* the durations a list may hold, each of them a float
DurationSet == {1, 3, 10, 13, 15}

\* sum(durations): 0 + durations[0] + durations[1] + ...
RECURSIVE SumFrom(_, _, _)
SumFrom(xs, i, acc) ==
    IF i > Len(xs) THEN acc ELSE SumFrom(xs, i + 1, FloatAdd(acc, xs[i]))

FloatSum(xs) == SumFrom(xs, 1, 0)

\* the four numbers of stats_text
PairStatistics(xs) ==
    [avg |-> FloatDiv(FloatSum(xs), Len(xs)),
     max |-> SeqMax(xs), min |-> SeqMin(xs), count |-> Len(xs)]

InitStats ==
    program = "script.py" /\ pc = "plot_individual_pairs" /\ InitCommon

\* durations = [p['duration_us'] for p in pair_list], one pair at a time
StatsCollect ==
    /\ program = "script.py"
    /\ pc = "plot_individual_pairs"
    /\ Len(durations) < MaxDurations
    /\ \E d \in DurationSet : durations' = Append(durations, d)
    /\ UNCHANGED <<program, pc, entries, start_map, pairs, data, results,
                   filtered, parseVars, slotVars, mainVars, prbVars,
                   avg_duration, max_duration, min_duration, mergeVars>>

\* avg_duration, max_duration and min_duration of a list that is not empty
StatsCompute ==
    /\ program = "script.py"
    /\ pc = "plot_individual_pairs"
    /\ durations # <<>>
    /\ avg_duration' = PairStatistics(durations).avg
    /\ max_duration' = PairStatistics(durations).max
    /\ min_duration' = PairStatistics(durations).min
    /\ pc' = "stats_text"
    /\ UNCHANGED <<program, entries, start_map, pairs, data, results,
                   filtered, parseVars, slotVars, mainVars, prbVars,
                   durations, mergeVars>>

NextStats == StatsCollect \/ StatsCompute

SpecStats == InitStats /\ [][NextStats]_vars

(***************************************************************************)
(* The same intervals in another order.                                    *)
(***************************************************************************)
StatsShown == program = "script.py" /\ pc = "stats_text"

\* the orders of n things
Orders(n) == {p \in [1..n -> 1..n] : \A i, j \in 1..n : p[i] = p[j] => i = j}

Reordered(xs, p) == [i \in 1..Len(xs) |-> xs[p[i]]]

\* B followed by A, for durations = A followed by the k last elements B
Swapped(xs, k) ==
    SubSeq(xs, Len(xs) - k + 1, Len(xs)) \o SubSeq(xs, 1, Len(xs) - k)

OrderFreeCounts(ys) ==
    /\ Len(ys) = Len(durations)
    /\ PairStatistics(ys).min = min_duration
    /\ PairStatistics(ys).max = max_duration

(***************************************************************************)
(* C21: the statistics of a category do not depend on the order of its    *)
(* intervals: count, min, max and mean over A followed by B are those      *)
(* over B followed by A and over every other order of the same intervals. *)
(* The mean is sum(durations) / len(durations) in floats, and the sum      *)
(* rounds differently in different orders, so this fails.                  *)
(***************************************************************************)
C21_OrderInsensitive ==
    StatsShown =>
        /\ \A k \in 0..Len(durations) :
              /\ OrderFreeCounts(Swapped(durations, k))
              /\ PairStatistics(Swapped(durations, k)).avg = avg_duration
        /\ \A p \in Orders(Len(durations)) :
              /\ OrderFreeCounts(Reordered(durations, p))
              /\ PairStatistics(Reordered(durations, p)).avg = avg_duration
====
